---- MODULE Spec2Model ----
(***************************************************************************)
(* Model of tracing-service: a tracing Layer (ServiceLayer) which offers   *)
(* Requests to a tokio mpsc channel, and a ResponseStream which drains the *)
(* channel one Request at a time through a tower Service.                  *)
(*                                                                         *)
(* One action per handler: on_event (producer offer), poll_next (consumer  *)
(* pull, including its recursive re-polls), and the environment steps the  *)
(* handlers observe: the layer being dropped, the stream being dropped,    *)
(* the Service changing readiness and an in-flight future completing.      *)
(***************************************************************************)
EXTENDS Integers, Sequences, FiniteSets, TLC

\* ---------------------------------------------------------------- bounds
MaxOffers == 3          \* number of on_event calls explored
MaxBuffer == 2          \* largest channel(buffer) explored
MaxEnd    == 2          \* number of pulls explored after Closed
Events    == {"a", "b"} \* payloads recorded from an Event

\* ---------------------------------------------------------------- values
NoRequest == [id |-> 0, val |-> "-"]
MkRequest(i, e) == [id |-> i, val |-> e]

\* Poll<Option<Result<Response, Error>>> as returned by poll_next.
\* res: "Ok" (echoed response), "Err" (error value in err), "-" otherwise.
PollPending == [poll |-> "Pending", some |-> FALSE, res |-> "-", err |-> "-", req |-> NoRequest]
ReadyNone == [poll |-> "Ready", some |-> FALSE, res |-> "-", err |-> "-", req |-> NoRequest]
ReadySomeOk(r) == [poll |-> "Ready", some |-> TRUE, res |-> "Ok", err |-> "-", req |-> r]
ReadySomeErr(e, r) == [poll |-> "Ready", some |-> TRUE, res |-> "Err", err |-> e, req |-> r]
NotPolled == [poll |-> "-", some |-> FALSE, res |-> "-", err |-> "-", req |-> NoRequest]

\* enum Inner
WaitingStream == [tag |-> "WaitingStream", request |-> NoRequest, future |-> 0]
WaitingService(r) == [tag |-> "WaitingService", request |-> r, future |-> 0]
Existing(f) == [tag |-> "Existing", request |-> NoRequest, future |-> f]
Closed == [tag |-> "Closed", request |-> NoRequest, future |-> 0]

VARIABLES
    sinkKind,       \* "Sender" (new_with_buffer / new) or "UnboundedSender" (new_unbounded)
    buffer,         \* capacity given to channel(buffer); 0 for the unbounded channel
    receiver,       \* contents of the mpsc channel, oldest first
    sinkAlive,      \* the ServiceLayer (sole owner of the sending half) is alive
    streamAlive,    \* the ResponseStream (owner of the Receiver) is alive
    inner,          \* ResponseStream.inner
    service,        \* what Service::poll_ready would report: "NotReady", "Ready", "Failed"
    futures,        \* futures[i]: state of the future returned by the i-th Service::call
    sent,           \* history: outcome of every sink_send, with its request
    received,       \* history: requests returned by poll_recv
    called,         \* history: requests passed to Service::call
    overlap,        \* history: Service::call occurred while an earlier future was unresolved
    out,            \* history: every Poll::Ready value returned by poll_next
    lastPoll,       \* value returned by the latest poll_next
    trace,          \* operations on receiver / service / future performed by the latest poll_next
    woken           \* the Waker handed to the latest poll_next has been woken since

vars == <<sinkKind, buffer, receiver, sinkAlive, streamAlive, inner, service, futures,
          sent, received, called, overlap, out, lastPoll, trace, woken>>

\* ------------------------------------------------------------ helpers
RECURSIVE CountNone(_)
CountNone(s) == IF s = <<>> THEN 0
                ELSE (IF Head(s).some THEN 0 ELSE 1) + CountNone(Tail(s))

RECURSIVE Accepted(_)
\* requests whose sink_send returned Ok, in order
Accepted(s) == IF s = <<>> THEN <<>>
               ELSE IF Head(s).outcome = "accepted"
                    THEN <<Head(s).req>> \o Accepted(Tail(s))
                    ELSE Accepted(Tail(s))

Step(op, res, tag) == [op |-> op, res |-> res, at |-> tag]

\* Where the Context's Waker of the latest poll_next is registered: with the
\* operation that was polled with cx and returned Pending, if any.
Waker ==
    IF lastPoll = PollPending /\ trace # <<>> /\ trace[Len(trace)].res = "Pending"
    THEN trace[Len(trace)].op
    ELSE "none"

\* ------------------------------------------------------- producer side
\* Variant of sink_send: the capacity test is off by one.
sink_send_OffByOne(kind, cap, q, rxAlive) ==
    IF ~rxAlive THEN "closed"
    ELSE IF kind = "Sender" /\ Len(q) > cap THEN "full"
    ELSE "accepted"

\* Variant of sink_send: a full channel is reported before a closed one.
sink_send_FullFirst(kind, cap, q, rxAlive) ==
    IF kind = "Sender" /\ Len(q) >= cap THEN "full"
    ELSE IF ~rxAlive THEN "closed"
    ELSE "accepted"

\* Sender::try_send / UnboundedSender::send
sink_send(kind, cap, q, rxAlive) ==
    IF ~rxAlive THEN "closed"
    ELSE IF kind = "Sender" /\ Len(q) >= cap THEN "full"
    ELSE "accepted"

\* Variant of on_event: an accepted request is handed straight to an idle
\* stream instead of waiting in the channel for the next poll.
on_event_Handoff(e) ==
    /\ sinkAlive
    /\ Len(sent) < MaxOffers
    /\ LET request == MkRequest(Len(sent) + 1, e)
           outcome == sink_send(sinkKind, buffer, receiver, streamAlive)
           direct == outcome = "accepted" /\ inner.tag = "WaitingStream" /\ receiver = <<>>
       IN /\ receiver' = IF outcome = "accepted" /\ ~direct THEN Append(receiver, request)
                          ELSE receiver
          /\ inner' = IF direct THEN WaitingService(request) ELSE inner
          /\ received' = IF direct THEN Append(received, request) ELSE received
          /\ sent' = Append(sent, [req |-> request, outcome |-> outcome])
          /\ woken' = (woken \/ (outcome = "accepted" /\ Waker = "poll_recv"))
    /\ UNCHANGED <<sinkKind, buffer, sinkAlive, streamAlive, service, futures,
                   called, overlap, out, lastPoll, trace>>

\* Variant of on_event: an offer that finds the channel full evicts the oldest
\* queued request to make room.
on_event_DropEvicts(e) ==
    /\ sinkAlive
    /\ Len(sent) < MaxOffers
    /\ LET request == MkRequest(Len(sent) + 1, e)
           outcome == sink_send(sinkKind, buffer, receiver, streamAlive)
       IN /\ receiver' = CASE outcome = "accepted" -> Append(receiver, request)
                           [] outcome = "full" -> Append(Tail(receiver), request)
                           [] OTHER -> receiver
          /\ sent' = Append(sent, [req |-> request, outcome |-> outcome])
          /\ woken' = (woken \/ (outcome = "accepted" /\ Waker = "poll_recv"))
    /\ UNCHANGED <<sinkKind, buffer, sinkAlive, streamAlive, inner, service, futures,
                   received, called, overlap, out, lastPoll, trace>>

\* Layer::on_event: build the request from the event, offer it, ignore the error.
on_event(e) ==
    /\ sinkAlive
    /\ Len(sent) < MaxOffers
    /\ LET request == MkRequest(Len(sent) + 1, e)
           outcome == sink_send(sinkKind, buffer, receiver, streamAlive)
       IN /\ receiver' = IF outcome = "accepted" THEN Append(receiver, request) ELSE receiver
          /\ sent' = Append(sent, [req |-> request, outcome |-> outcome])
          /\ woken' = (woken \/ (outcome = "accepted" /\ Waker = "poll_recv"))
    /\ UNCHANGED <<sinkKind, buffer, sinkAlive, streamAlive, inner, service, futures,
                   received, called, overlap, out, lastPoll, trace>>

\* The ServiceLayer is dropped: the only sending half is released.
drop_layer ==
    /\ sinkAlive
    /\ sinkAlive' = FALSE
    /\ woken' = (woken \/ Waker = "poll_recv")
    /\ UNCHANGED <<sinkKind, buffer, receiver, streamAlive, inner, service, futures,
                   sent, received, called, overlap, out, lastPoll, trace>>

\* ------------------------------------------------------- consumer side
\* Receiver::poll_recv
poll_recv(q, txAlive) ==
    IF q # <<>> THEN "Some"
    ELSE IF ~txAlive THEN "None"
    ELSE "Pending"

\* Service::poll_ready
poll_ready(svc) ==
    CASE svc = "Ready" -> "Ok"
      [] svc = "Failed" -> "Err"
      [] OTHER -> "Pending"

\* Future::poll on the future returned by Service::call
future_poll(fs, f) ==
    CASE fs[f] = "ok" -> "Ok"
      [] fs[f] = "err" -> "Err"
      [] OTHER -> "Pending"

RECURSIVE poll_next(_, _)

\* Variant of the WaitingStream arm: takes the newest request of the channel.
arm_WaitingStream_Newest(s, in) ==
    LET item == poll_recv(s.receiver, sinkAlive)
        t == Append(s.trace, Step("poll_recv", item, "WaitingStream"))
        n == Len(s.receiver)
    IN CASE item = "Pending" -> [s EXCEPT !.trace = t, !.ret = PollPending]
         [] item = "Some" ->
              poll_next([s EXCEPT !.trace = t,
                                  !.receiver = SubSeq(s.receiver, 1, n - 1),
                                  !.received = Append(s.received, s.receiver[n]),
                                  !.inner = WaitingService(s.receiver[n])], in)
         [] OTHER -> [s EXCEPT !.trace = t, !.inner = Closed, !.ret = ReadyNone]

\* Variant of the WaitingStream arm: an empty channel is taken for a closed one.
arm_WaitingStream_CloseOnEmpty(s, in) ==
    LET item == poll_recv(s.receiver, sinkAlive)
        t == Append(s.trace, Step("poll_recv", item, "WaitingStream"))
    IN CASE item = "Some" ->
              poll_next([s EXCEPT !.trace = t,
                                  !.receiver = Tail(s.receiver),
                                  !.received = Append(s.received, Head(s.receiver)),
                                  !.inner = WaitingService(Head(s.receiver))], in)
         [] OTHER -> [s EXCEPT !.trace = t, !.inner = Closed, !.ret = ReadyNone]

\* Variant of the WaitingStream arm: after taking a request it returns to the
\* consumer instead of polling itself again.
arm_WaitingStream_ReturnsAfterItem(s, in) ==
    LET item == poll_recv(s.receiver, sinkAlive)
        t == Append(s.trace, Step("poll_recv", item, "WaitingStream"))
    IN CASE item = "Pending" -> [s EXCEPT !.trace = t, !.ret = PollPending]
         [] item = "Some" ->
              [s EXCEPT !.trace = t,
                        !.receiver = Tail(s.receiver),
                        !.received = Append(s.received, Head(s.receiver)),
                        !.inner = WaitingService(Head(s.receiver)),
                        !.ret = PollPending]
         [] OTHER -> [s EXCEPT !.trace = t, !.inner = Closed, !.ret = ReadyNone]

\* Variant of the WaitingStream arm: an empty channel is answered with Pending
\* without polling the Receiver.
arm_WaitingStream_PendingWithoutPoll(s, in) ==
    IF s.receiver = <<>> /\ sinkAlive
    THEN [s EXCEPT !.ret = PollPending]
    ELSE LET item == poll_recv(s.receiver, sinkAlive)
             t == Append(s.trace, Step("poll_recv", item, "WaitingStream"))
         IN CASE item = "Some" ->
                   poll_next([s EXCEPT !.trace = t,
                                       !.receiver = Tail(s.receiver),
                                       !.received = Append(s.received, Head(s.receiver)),
                                       !.inner = WaitingService(Head(s.receiver))], in)
              [] OTHER -> [s EXCEPT !.trace = t, !.inner = Closed, !.ret = ReadyNone]

\* InnerProj::WaitingStream arm
arm_WaitingStream(s, in) ==
    LET item == poll_recv(s.receiver, sinkAlive)
        t == Append(s.trace, Step("poll_recv", item, "WaitingStream"))
    IN CASE item = "Pending" -> [s EXCEPT !.trace = t, !.ret = PollPending]
         [] item = "Some" ->
              poll_next([s EXCEPT !.trace = t,
                                  !.receiver = Tail(s.receiver),
                                  !.received = Append(s.received, Head(s.receiver)),
                                  !.inner = WaitingService(Head(s.receiver))], in)
         [] OTHER -> [s EXCEPT !.trace = t, !.inner = Closed, !.ret = ReadyNone]

\* Variant of the WaitingService arm: a poll_ready error is surfaced but the
\* stream goes back to WaitingStream instead of staying Closed.
arm_WaitingService_ErrContinues(s, in) ==
    LET result == poll_ready(s.service)
        t == Append(s.trace, Step("poll_ready", result, "WaitingService"))
        request == s.inner.request
        replaced == [s EXCEPT !.trace = t, !.inner = Closed]
    IN CASE result = "Pending" -> [s EXCEPT !.trace = t, !.ret = PollPending]
         [] result = "Err" -> [replaced EXCEPT !.inner = WaitingStream,
                                               !.ret = ReadySomeErr("poll_ready", request)]
         [] OTHER ->
              LET f == Len(s.futures) + 1
              IN poll_next([replaced EXCEPT
                      !.trace = Append(t, Step("call", "Future", "WaitingService")),
                      !.futures = Append(s.futures, in.fut),
                      !.called = Append(s.called, request),
                      !.overlap = s.overlap \/ (\E i \in 1..Len(s.futures) : s.futures[i] = "running"),
                      !.service = in.after,
                      !.inner = Existing(f)], in)

\* Variant of the WaitingService arm: the intermediate Closed state is not
\* overwritten with Existing after the call.
arm_WaitingService_StaysClosed(s, in) ==
    LET result == poll_ready(s.service)
        t == Append(s.trace, Step("poll_ready", result, "WaitingService"))
        request == s.inner.request
        replaced == [s EXCEPT !.trace = t, !.inner = Closed]
    IN CASE result = "Pending" -> [s EXCEPT !.trace = t, !.ret = PollPending]
         [] result = "Err" -> [replaced EXCEPT !.ret = ReadySomeErr("poll_ready", request)]
         [] OTHER ->
              poll_next([replaced EXCEPT
                      !.trace = Append(t, Step("call", "Future", "WaitingService")),
                      !.futures = Append(s.futures, in.fut),
                      !.called = Append(s.called, request),
                      !.overlap = s.overlap \/ (\E i \in 1..Len(s.futures) : s.futures[i] = "running"),
                      !.service = in.after], in)

\* Variant of the WaitingService arm: a Service that is not ready makes the
\* stream give up the pending request and go back to the channel.
arm_WaitingService_DropsPending(s, in) ==
    LET result == poll_ready(s.service)
        t == Append(s.trace, Step("poll_ready", result, "WaitingService"))
        request == s.inner.request
        replaced == [s EXCEPT !.trace = t, !.inner = Closed]
    IN CASE result = "Pending" -> [s EXCEPT !.trace = t, !.inner = WaitingStream,
                                            !.ret = PollPending]
         [] result = "Err" -> [replaced EXCEPT !.ret = ReadySomeErr("poll_ready", request)]
         [] OTHER ->
              LET f == Len(s.futures) + 1
              IN poll_next([replaced EXCEPT
                      !.trace = Append(t, Step("call", "Future", "WaitingService")),
                      !.futures = Append(s.futures, in.fut),
                      !.called = Append(s.called, request),
                      !.overlap = s.overlap \/ (\E i \in 1..Len(s.futures) : s.futures[i] = "running"),
                      !.service = in.after,
                      !.inner = Existing(f)], in)

\* Variant of the WaitingService arm: the pending request is passed to
\* Service::call without looking at what poll_ready reported.
arm_WaitingService_CallsUnchecked(s, in) ==
    LET result == poll_ready(s.service)
        t == Append(s.trace, Step("poll_ready", result, "WaitingService"))
        request == s.inner.request
        replaced == [s EXCEPT !.trace = t, !.inner = Closed]
        f == Len(s.futures) + 1
    IN CASE result = "Pending" -> [s EXCEPT !.trace = t, !.ret = PollPending]
         [] OTHER ->
              poll_next([replaced EXCEPT
                      !.trace = Append(t, Step("call", "Future", "WaitingService")),
                      !.futures = Append(s.futures, in.fut),
                      !.called = Append(s.called, request),
                      !.overlap = s.overlap \/ (\E i \in 1..Len(s.futures) : s.futures[i] = "running"),
                      !.service = IF result = "Err" THEN s.service ELSE in.after,
                      !.inner = Existing(f)], in)

\* Variant of the WaitingService arm: a poll_ready error closes the stream
\* without being yielded.
arm_WaitingService_ErrSilent(s, in) ==
    LET result == poll_ready(s.service)
        t == Append(s.trace, Step("poll_ready", result, "WaitingService"))
        request == s.inner.request
        replaced == [s EXCEPT !.trace = t, !.inner = Closed]
    IN CASE result = "Pending" -> [s EXCEPT !.trace = t, !.ret = PollPending]
         [] result = "Err" -> [replaced EXCEPT !.ret = ReadyNone]
         [] OTHER ->
              LET f == Len(s.futures) + 1
              IN poll_next([replaced EXCEPT
                      !.trace = Append(t, Step("call", "Future", "WaitingService")),
                      !.futures = Append(s.futures, in.fut),
                      !.called = Append(s.called, request),
                      !.overlap = s.overlap \/ (\E i \in 1..Len(s.futures) : s.futures[i] = "running"),
                      !.service = in.after,
                      !.inner = Existing(f)], in)

\* InnerProj::WaitingService arm
arm_WaitingService(s, in) ==
    LET result == poll_ready(s.service)
        t == Append(s.trace, Step("poll_ready", result, "WaitingService"))
        request == s.inner.request
        \* project_replace(Inner::Closed): Closed is the intermediate state
        replaced == [s EXCEPT !.trace = t, !.inner = Closed]
    IN CASE result = "Pending" -> [s EXCEPT !.trace = t, !.ret = PollPending]
         [] result = "Err" -> [replaced EXCEPT !.ret = ReadySomeErr("poll_ready", request)]
         [] OTHER ->
              LET f == Len(s.futures) + 1
              IN poll_next([replaced EXCEPT
                      !.trace = Append(t, Step("call", "Future", "WaitingService")),
                      !.futures = Append(s.futures, in.fut),
                      !.called = Append(s.called, request),
                      !.overlap = s.overlap \/ (\E i \in 1..Len(s.futures) : s.futures[i] = "running"),
                      !.service = in.after,
                      !.inner = Existing(f)], in)

\* Variant of the Existing arm: goes back to WaitingStream without waiting
\* for the future to resolve.
arm_Existing_NoWait(s, in) ==
    LET f == s.inner.future
        output == future_poll(s.futures, f)
        t == Append(s.trace, Step("future_poll", output, "Existing"))
    IN CASE output = "Pending" ->
              [s EXCEPT !.trace = t, !.inner = WaitingStream, !.ret = PollPending]
         [] output = "Ok" ->
              [s EXCEPT !.trace = t, !.inner = WaitingStream, !.ret = ReadySomeOk(s.called[f])]
         [] OTHER ->
              [s EXCEPT !.trace = t, !.inner = WaitingStream, !.ret = ReadySomeErr("call", s.called[f])]

\* Variant of the Existing arm: a failed call closes the stream.
arm_Existing_ErrCloses(s, in) ==
    LET f == s.inner.future
        output == future_poll(s.futures, f)
        t == Append(s.trace, Step("future_poll", output, "Existing"))
    IN CASE output = "Pending" -> [s EXCEPT !.trace = t, !.ret = PollPending]
         [] output = "Ok" ->
              [s EXCEPT !.trace = t, !.inner = WaitingStream, !.ret = ReadySomeOk(s.called[f])]
         [] OTHER ->
              [s EXCEPT !.trace = t, !.inner = Closed, !.ret = ReadySomeErr("call", s.called[f])]

\* Variant of the Existing arm: while the future is unresolved the next
\* request is already taken out of the channel.
arm_Existing_Prefetch(s, in) ==
    LET f == s.inner.future
        output == future_poll(s.futures, f)
        t == Append(s.trace, Step("future_poll", output, "Existing"))
    IN CASE output = "Pending" ->
              IF s.receiver # <<>>
              THEN [s EXCEPT !.trace = Append(t, Step("poll_recv", "Some", "Existing")),
                             !.receiver = Tail(s.receiver),
                             !.received = Append(s.received, Head(s.receiver)),
                             !.ret = PollPending]
              ELSE [s EXCEPT !.trace = t, !.ret = PollPending]
         [] output = "Ok" ->
              [s EXCEPT !.trace = t, !.inner = WaitingStream, !.ret = ReadySomeOk(s.called[f])]
         [] OTHER ->
              [s EXCEPT !.trace = t, !.inner = WaitingStream, !.ret = ReadySomeErr("call", s.called[f])]

\* InnerProj::Existing arm
arm_Existing(s, in) ==
    LET f == s.inner.future
        output == future_poll(s.futures, f)
        t == Append(s.trace, Step("future_poll", output, "Existing"))
    IN CASE output = "Pending" -> [s EXCEPT !.trace = t, !.ret = PollPending]
         [] output = "Ok" ->
              [s EXCEPT !.trace = t, !.inner = WaitingStream, !.ret = ReadySomeOk(s.called[f])]
         [] OTHER ->
              [s EXCEPT !.trace = t, !.inner = WaitingStream, !.ret = ReadySomeErr("call", s.called[f])]

\* Variant of the Closed arm: a closed stream polls the channel again.
arm_Closed_Reopens(s, in) ==
    IF s.receiver # <<>> THEN arm_WaitingStream(s, in) ELSE [s EXCEPT !.ret = ReadyNone]

\* Variant of the Closed arm: a closed stream keeps emptying the channel.
arm_Closed_Drains(s, in) ==
    IF s.receiver # <<>>
    THEN [s EXCEPT !.trace = Append(s.trace, Step("poll_recv", "Some", "Closed")),
                   !.receiver = Tail(s.receiver),
                   !.received = Append(s.received, Head(s.receiver)),
                   !.ret = ReadyNone]
    ELSE [s EXCEPT !.ret = ReadyNone]

\* InnerProj::Closed arm
arm_Closed(s, in) == [s EXCEPT !.ret = ReadyNone]

\* <ResponseStream as Stream>::poll_next
poll_next(s, in) ==
    CASE s.inner.tag = "WaitingStream" -> arm_WaitingStream(s, in)
      [] s.inner.tag = "WaitingService" -> arm_WaitingService(s, in)
      [] s.inner.tag = "Existing" -> arm_Existing(s, in)
      [] OTHER -> arm_Closed(s, in)

\* What a Service::call made during this pull does to the worker: the readiness
\* it is left with and the state its future starts in.
CallInputs == [after : {"NotReady", "Ready"}, fut : {"running", "ok", "err"}]

\* The consumer polls the stream once (StreamExt::next).
Pull(in) ==
    /\ streamAlive
    /\ CountNone(out) < MaxEnd
    /\ LET s0 == [inner |-> inner, receiver |-> receiver, service |-> service,
                  futures |-> futures, received |-> received, called |-> called,
                  overlap |-> overlap, trace |-> <<>>, ret |-> NotPolled]
           s1 == poll_next(s0, in)
       IN /\ inner' = s1.inner
          /\ receiver' = s1.receiver
          /\ service' = s1.service
          /\ futures' = s1.futures
          /\ received' = s1.received
          /\ called' = s1.called
          /\ overlap' = s1.overlap
          /\ trace' = s1.trace
          /\ lastPoll' = s1.ret
          /\ out' = IF s1.ret.poll = "Ready" THEN Append(out, s1.ret) ELSE out
          /\ woken' = FALSE
    /\ UNCHANGED <<sinkKind, buffer, sinkAlive, streamAlive, sent>>

\* The ResponseStream is dropped: the Receiver goes with it.
drop_stream ==
    /\ streamAlive
    /\ streamAlive' = FALSE
    /\ UNCHANGED <<sinkKind, buffer, receiver, sinkAlive, inner, service, futures,
                   sent, received, called, overlap, out, lastPoll, trace, woken>>

\* ------------------------------------------------------------- worker
\* The Service gains capacity.
service_ready ==
    /\ service = "NotReady"
    /\ service' = "Ready"
    /\ woken' = (woken \/ Waker = "poll_ready")
    /\ UNCHANGED <<sinkKind, buffer, receiver, sinkAlive, streamAlive, inner, futures,
                   sent, received, called, overlap, out, lastPoll, trace>>

\* The Service fails: poll_ready reports Err from now on.
service_fail ==
    /\ service # "Failed"
    /\ service' = "Failed"
    /\ woken' = (woken \/ Waker = "poll_ready")
    /\ UNCHANGED <<sinkKind, buffer, receiver, sinkAlive, streamAlive, inner, futures,
                   sent, received, called, overlap, out, lastPoll, trace>>

\* An unresolved future resolves, to a response or to an error.
future_complete(f, o) ==
    /\ f \in 1..Len(futures)
    /\ futures[f] = "running"
    /\ futures' = [futures EXCEPT ![f] = o]
    /\ woken' = (woken \/ (Waker = "future_poll" /\ inner.future = f))
    /\ UNCHANGED <<sinkKind, buffer, receiver, sinkAlive, streamAlive, inner, service,
                   sent, received, called, overlap, out, lastPoll, trace>>

\* ------------------------------------------------------ specification
\* ServiceLayer::new_with_buffer / new_unbounded, ResponseStream::new
Init ==
    /\ \/ sinkKind = "Sender" /\ buffer \in 1..MaxBuffer
       \/ sinkKind = "UnboundedSender" /\ buffer = 0
    /\ receiver = <<>>
    /\ sinkAlive = TRUE
    /\ streamAlive = TRUE
    /\ inner = WaitingStream
    /\ service \in {"NotReady", "Ready"}
    /\ futures = <<>>
    /\ sent = <<>>
    /\ received = <<>>
    /\ called = <<>>
    /\ overlap = FALSE
    /\ out = <<>>
    /\ lastPoll = NotPolled
    /\ trace = <<>>
    /\ woken = FALSE

Next ==
    \/ \E e \in Events : on_event(e)
    \/ drop_layer
    \/ \E in \in CallInputs : Pull(in)
    \/ drop_stream
    \/ service_ready
    \/ service_fail
    \/ \E f \in 1..MaxOffers, o \in {"ok", "err"} : future_complete(f, o)

Spec == Init /\ [][Next]_vars

\* ----------------------------------------------------------- properties
\* Option::Some values returned by poll_next, in order
Results == SelectSeq(out, LAMBDA x : x.some)
Running == {i \in 1..Len(futures) : futures[i] = "running"}
ReadinessErrors == {i \in 1..Len(out) : out[i].some /\ out[i].err = "poll_ready"}
LastStep == IF trace = <<>> THEN Step("-", "-", "-") ELSE trace[Len(trace)]
Count(seq, x) == Cardinality({i \in 1..Len(seq) : seq[i] = x})

TypeOK ==
    /\ Len(receiver) <= MaxOffers
    /\ inner.tag \in {"WaitingStream", "WaitingService", "Existing", "Closed"}
    /\ service \in {"NotReady", "Ready", "Failed"}
    /\ Len(sent) <= MaxOffers

\* C1: Service::call is never invoked while the future returned by an earlier
\* call is unresolved; at most one future is unresolved at any time, and it is
\* the one held by Inner::Existing.
AtMostOneInFlight ==
    /\ ~overlap
    /\ Cardinality(Running) <= 1
    /\ \A i \in Running : inner = Existing(i)

\* C1 witness: a second call has been made after the first future resolved.
AtMostOneInFlightWitness ==
    /\ Len(called) >= 2
    /\ futures[1] # "running"
    /\ futures[2] = "running"

\* C2: the i-th result yielded by poll_next belongs to the i-th request the
\* channel accepted; when it comes from the call it is the outcome of the
\* future of the i-th call, which was made with that request.
OrderPreserved ==
    \A i \in 1..Len(Results) :
        /\ i <= Len(Accepted(sent))
        /\ Results[i].req = Accepted(sent)[i]
        /\ Results[i].err # "poll_ready" =>
              /\ i <= Len(called)
              /\ called[i] = Accepted(sent)[i]
              /\ (Results[i].res = "Ok") = (futures[i] = "ok")
              /\ (Results[i].res = "Err") = (futures[i] = "err")

\* C2 witness: two results were yielded although an offer between the two
\* accepted ones was dropped, and the first request waited for the Service.
OrderPreservedWitness ==
    /\ Len(Results) >= 2
    /\ \E i \in 1..Len(sent) : sent[i].outcome = "full" /\ i < Results[2].req.id
    /\ Results[1].req.val # Results[2].req.val

\* C3: when the stream closed without a readiness failure, the pulls yielded
\* exactly one result per accepted request, in order, Ok results echoing the
\* request, followed only by None; while nothing was accepted no pull polls the
\* Service or calls it, and the first completed pull yields None.
CleanExhaustion ==
    /\ (inner.tag = "Closed" /\ ReadinessErrors = {}) =>
          /\ Len(Results) = Len(Accepted(sent))
          /\ Len(out) > Len(Results)
          /\ \A i \in 1..Len(out) :
                IF i <= Len(Results)
                THEN /\ out[i].some
                     /\ out[i].req = Accepted(sent)[i]
                     /\ futures[i] = "ok" => out[i] = ReadySomeOk(Accepted(sent)[i])
                ELSE out[i] = ReadyNone
    /\ Accepted(sent) = <<>> =>
          /\ called = <<>>
          /\ \A j \in 1..Len(trace) : trace[j].op = "poll_recv"
          /\ out # <<>> => out[1] = ReadyNone

\* C3 witness: requests a, b accepted, the layer dropped, and the pulls
\* yielded Ok(a), Ok(b), None.
CleanExhaustionWitness ==
    /\ Len(out) = 3
    /\ out[1] = ReadySomeOk(MkRequest(1, "a"))
    /\ out[2] = ReadySomeOk(MkRequest(2, "b"))
    /\ out[3] = ReadyNone
    /\ inner = Closed

\* C4: a poll_ready error while request k is pending is yielded by that very
\* pull, once; the stream is Closed from then on, everything yielded after it
\* is None, request k is never called and request k+1 is never received.
TerminalReadinessFailure ==
    /\ LastStep = Step("poll_ready", "Err", "WaitingService") =>
          /\ lastPoll.some /\ lastPoll.err = "poll_ready"
          /\ out # <<>> /\ out[Len(out)] = lastPoll
    /\ Cardinality(ReadinessErrors) <= 1
    /\ \A i \in ReadinessErrors :
          /\ inner = Closed
          /\ \A j \in 1..Len(out) : (j < i => out[j].some) /\ (j > i => out[j] = ReadyNone)
          /\ Len(received) = i
          /\ out[i] = ReadySomeErr("poll_ready", received[i])
          /\ Len(called) = i - 1

\* C4 witness: the readiness error was yielded at position 2, a later pull
\* yielded None, and the next request is still in the channel.
TerminalReadinessFailureWitness ==
    /\ 2 \in ReadinessErrors
    /\ Len(out) >= 3
    /\ receiver # <<>>
    /\ service = "Failed"

\* C5: a pull that finds the in-flight future of request k failed yields that
\* error at position k and leaves the stream in WaitingStream; such a result can
\* be the last thing yielded only while the stream is not Closed.
CallFailureNonTerminal ==
    /\ LastStep = Step("future_poll", "Err", "Existing") =>
          /\ inner = WaitingStream
          /\ lastPoll = ReadySomeErr("call", called[Len(called)])
          /\ Results # <<>> /\ Results[Len(Results)] = lastPoll
          /\ Len(Results) = Len(called)
          /\ futures[Len(called)] = "err"
    /\ \A k \in 1..Len(out) :
          (out[k].some /\ out[k].err = "call") =>
              /\ futures[k] = "err"
              /\ (k = Len(out) => inner.tag # "Closed")

\* C5 witness: request 1 failed in the call, and request 2 was then received,
\* checked, called and its response yielded.
CallFailureNonTerminalWitness ==
    /\ Len(out) >= 2
    /\ Len(received) >= 2
    /\ out[1] = ReadySomeErr("call", received[1])
    /\ out[2] = ReadySomeOk(received[2])
    /\ Len(called) = 2

\* C6: once inner is Closed it stays Closed in every step, and a pull made in
\* Closed returns Ready(None) without touching the channel, the Service or a
\* future.
ClosedIsTerminal ==
    [][inner.tag = "Closed" =>
          /\ inner' = Closed
          /\ (\E in \in CallInputs : Pull(in)) =>
                /\ lastPoll' = ReadyNone
                /\ out' = Append(out, ReadyNone)
                /\ trace' = <<>>
                /\ UNCHANGED <<receiver, service, futures, received, called>>]_vars

\* C6 witness: two pulls returned None in Closed although the channel holds a
\* request and the layer is alive.
ClosedIsTerminalWitness ==
    /\ inner = Closed
    /\ Len(out) >= 2
    /\ out[Len(out)] = ReadyNone
    /\ out[Len(out) - 1] = ReadyNone
    /\ receiver # <<>>
    /\ sinkAlive

\* C7: on a bounded channel with the stream alive an offer is accepted exactly
\* when the channel holds fewer than `buffer` requests and reported full
\* otherwise, the channel never holds more than `buffer` requests, and while no
\* request has been taken out of the channel the first `buffer` offers are the
\* accepted ones and every later one is full.
Backpressure ==
    /\ [](sinkKind = "Sender" =>
            /\ Len(receiver) <= buffer
            /\ received = <<>> =>
                  \A i \in 1..Len(sent) :
                      /\ sent[i].outcome = "accepted" => i <= buffer
                      /\ sent[i].outcome = "full" => i > buffer)
    /\ [][(sinkKind = "Sender" /\ streamAlive /\ \E e \in Events : on_event(e)) =>
            /\ sent'[Len(sent')].outcome = (IF Len(receiver) < buffer THEN "accepted" ELSE "full")
            /\ Len(receiver) < buffer => receiver' = Append(receiver, sent'[Len(sent')].req)
            /\ Len(receiver) >= buffer => receiver' = receiver]_vars

\* C7 witness: buffer + 1 offers before any pull, the last of them full, and
\* after a pull received a request the next offer was accepted.
BackpressureWitness ==
    /\ sinkKind = "Sender"
    /\ Len(sent) = buffer + 2
    /\ \A i \in 1..buffer : sent[i].outcome = "accepted"
    /\ sent[buffer + 1].outcome = "full"
    /\ sent[buffer + 2].outcome = "accepted"
    /\ received # <<>>

\* C8: inner starts as WaitingStream, and a step that makes it Closed is a pull
\* that either started in WaitingStream with the channel empty and the layer
\* dropped and returned None, or ended in WaitingService with the Service
\* failed and returned the poll_ready error; a step from Existing, and a pull
\* whose poll_ready returned Ok, never leave inner Closed.
ClosedOnlyByExhaustionOrReadinessFailure ==
    /\ inner = WaitingStream
    /\ [][(inner.tag # "Closed" /\ inner'.tag = "Closed") =>
            /\ \E in \in CallInputs : Pull(in)
            /\ inner.tag # "Existing"
            /\ \A j \in 1..Len(trace') : ~(trace'[j].op = "poll_ready" /\ trace'[j].res = "Ok")
            /\ \/ /\ inner = WaitingStream
                  /\ receiver = <<>> /\ ~sinkAlive
                  /\ trace' = <<Step("poll_recv", "None", "WaitingStream")>>
                  /\ lastPoll' = ReadyNone
               \/ /\ inner.tag \in {"WaitingStream", "WaitingService"}
                  /\ service = "Failed"
                  /\ trace'[Len(trace')] = Step("poll_ready", "Err", "WaitingService")
                  /\ lastPoll'.some /\ lastPoll'.err = "poll_ready"]_vars

\* C8 witness: a pull that started in WaitingStream received a request, found
\* the Service failed and closed.
ClosedOnlyByExhaustionOrReadinessFailureWitness ==
    /\ inner = Closed
    /\ trace = <<Step("poll_recv", "Some", "WaitingStream"),
                 Step("poll_ready", "Err", "WaitingService")>>

\* C9: the requests received are the first ones accepted; each of them is the
\* pending request of WaitingService, or was passed to Service::call exactly
\* once, or was pending when a poll_ready error closed the stream, and never two
\* of these; when the stream is Closed without a readiness error, every received
\* request was called, its future resolved and its result yielded.
NeverSilentlyDropped ==
    /\ Len(received) <= Len(Accepted(sent))
    /\ \A i \in 1..Len(received) :
          LET r == received[i]
              pending == inner = WaitingService(r)
              submitted == Count(called, r) = 1
              failed == \E j \in ReadinessErrors : out[j].req = r
          IN /\ r = Accepted(sent)[i]
             /\ Count(called, r) <= 1
             /\ pending \/ submitted \/ failed
             /\ ~(pending /\ submitted) /\ ~(pending /\ failed) /\ ~(submitted /\ failed)
    /\ Len(called) <= Len(received)
    /\ (inner.tag = "Closed" /\ ReadinessErrors = {}) =>
          /\ inner.request = NoRequest /\ inner.future = 0
          /\ called = received
          /\ Running = {}
          /\ Len(Results) = Len(received)

\* C9 witness: one request was called and resolved, the next is pending in
\* WaitingService after a pull that found the Service not ready.
NeverSilentlyDroppedWitness ==
    /\ inner.tag = "WaitingService"
    /\ Len(received) = 2
    /\ Len(called) = 1
    /\ lastPoll = PollPending

\* C10: inner changes only in a pull; an offer, the layer being dropped, the
\* Service becoming ready or failing, and a future completing leave inner, the
\* pending request, what was yielded and what the last pull returned unchanged.
PullDriven ==
    [][/\ (inner' # inner \/ out' # out) => \E in \in CallInputs : Pull(in)
       /\ (\/ \E e \in Events : on_event(e)
           \/ drop_layer
           \/ service_ready
           \/ service_fail
           \/ \E f \in 1..Len(futures), o \in {"ok", "err"} : future_complete(f, o))
          => UNCHANGED <<inner, out, lastPoll, received, called>>]_vars

\* C10 witness: the last pull returned Pending in Existing, the future has
\* since completed and a request is waiting in the channel, and inner is still
\* Existing.
PullDrivenWitness ==
    /\ inner.tag = "Existing"
    /\ lastPoll = PollPending
    /\ futures[inner.future] = "ok"
    /\ receiver # <<>>

\* C11: within a pull every Service::call is immediately preceded by a
\* poll_ready that returned Ok, every poll_ready that returned Ok is immediately
\* followed by a call, a poll_ready that returned Pending or Err is the last
\* operation of the pull, and a pull polls readiness at most once; the call is
\* made with the request that was pending and only when the Service is ready.
ReadyCheckPairsWithCall ==
    /\ [](/\ \A j \in 1..Len(trace) :
                /\ trace[j].op = "call" =>
                      j > 1 /\ trace[j - 1] = Step("poll_ready", "Ok", "WaitingService")
                /\ trace[j] = Step("poll_ready", "Ok", "WaitingService") =>
                      j < Len(trace) /\ trace[j + 1].op = "call"
                /\ (trace[j].op = "poll_ready" /\ trace[j].res # "Ok") => j = Len(trace)
          /\ Cardinality({j \in 1..Len(trace) : trace[j].op = "poll_ready"}) <= 1
          /\ Cardinality({j \in 1..Len(trace) : trace[j].op = "call"}) <= 1)
    /\ [][called' # called =>
            /\ service = "Ready"
            /\ called' = Append(called, IF inner.tag = "WaitingService" THEN inner.request
                                        ELSE Head(receiver))
            /\ Len(futures') = Len(futures) + 1
            /\ Cardinality({j \in 1..Len(trace') : trace'[j].op = "call"}) = 1]_vars

\* C11 witness: a pull that found the Service not ready was followed by a pull
\* that got Ok from poll_ready and called the Service with the pending request.
ReadyCheckPairsWithCallWitness ==
    /\ Len(trace) >= 2
    /\ trace[1] = Step("poll_ready", "Ok", "WaitingService")
    /\ trace[2].op = "call"
    /\ Len(called) = 2

\* C12: a request leaves the channel only in a pull that starts in
\* WaitingStream with every earlier received request already yielded, one
\* request per pull and as the first operation of the pull; while inner is not
\* WaitingStream the channel only grows at its tail.
NextItemOnlyAfterResolve ==
    /\ [](/\ Len(received) <= Len(Results) + 1
          /\ \A j \in 1..Len(trace) : trace[j].op = "poll_recv" => j = 1)
    /\ [][received' # received =>
            /\ inner = WaitingStream
            /\ Len(received) = Len(Results)
            /\ receiver # <<>>
            /\ received' = Append(received, Head(receiver))
            /\ receiver' = Tail(receiver)]_vars
    /\ [][inner.tag # "WaitingStream" =>
            /\ received' = received
            /\ Len(receiver') >= Len(receiver)
            /\ SubSeq(receiver', 1, Len(receiver)) = receiver]_vars

\* C12 witness: request 1 is in flight and unresolved after a pull returned
\* Pending, and requests 2 and 3 are still in the channel.
NextItemOnlyAfterResolveWitness ==
    /\ inner.tag = "Existing"
    /\ futures[inner.future] = "running"
    /\ lastPoll = PollPending
    /\ Len(received) = 1
    /\ Len(receiver) = 2

\* C13: the number of results yielded, plus one when a request is pending in
\* WaitingService or in flight in Existing, equals the number of requests
\* received from the channel; in Closed the two numbers are equal.
OneResultPerReceived ==
    /\ Len(Results) + (IF inner.tag \in {"WaitingService", "Existing"} THEN 1 ELSE 0)
          = Len(received)
    /\ inner.tag = "Closed" => Len(Results) = Len(received)

\* C13 witness: the stream closed on a readiness error after three requests were
\* received, two of them answered by the Service.
OneResultPerReceivedWitness ==
    /\ inner = Closed
    /\ Len(received) = 3
    /\ Len(called) = 2
    /\ ReadinessErrors = {3}

\* C14: an offer can always be made while the layer is alive and ends with one
\* outcome: closed when the stream was dropped, otherwise full when the channel
\* is bounded and holds `buffer` requests, otherwise accepted with the request
\* appended at the tail of the channel. A dropped offer changes nothing but the
\* record of the offer, its request is nowhere in the channel or the stream, and
\* once the stream was dropped every later offer is closed.
OfferOutcome ==
    /\ [](/\ (sinkAlive /\ Len(sent) < MaxOffers) => \A e \in Events : ENABLED on_event(e)
          /\ \A i \in 1..Len(sent) :
                sent[i].outcome # "accepted" =>
                    /\ \A j \in 1..Len(receiver) : receiver[j] # sent[i].req
                    /\ \A j \in 1..Len(received) : received[j] # sent[i].req
                    /\ inner.request # sent[i].req)
    /\ [][(\E e \in Events : on_event(e)) =>
            LET o == sent'[Len(sent')].outcome
                r == sent'[Len(sent')].req
            IN /\ sent' = Append(sent, [req |-> r, outcome |-> o])
               /\ o = (IF ~streamAlive THEN "closed"
                       ELSE IF sinkKind = "Sender" /\ Len(receiver) >= buffer THEN "full"
                       ELSE "accepted")
               /\ receiver' = (IF o = "accepted" THEN Append(receiver, r) ELSE receiver)
               /\ UNCHANGED <<inner, service, futures, received, called, out, lastPoll>>]_vars
    /\ [][~streamAlive =>
            /\ ~streamAlive'
            /\ receiver' = receiver
            /\ sent' # sent => sent'[Len(sent')].outcome = "closed"]_vars

\* C14 witness: on a bounded channel one offer was accepted, the next found the
\* channel full, and after the stream was dropped with the channel still full
\* the third was reported closed.
OfferOutcomeWitness ==
    /\ Len(sent) = 3
    /\ sent[2].outcome = "full"
    /\ sent[3].outcome = "closed"
    /\ sinkKind = "Sender"
    /\ Len(receiver) = buffer

\* C15: a dropped offer changes nothing the stream reads or the consumer sees
\* (only the record of offers grows), and what the consumer has been given is
\* fixed by the accepted requests and the worker alone: the i-th Some is the
\* poll_ready error, the response or the call error for the i-th accepted
\* request, and every None comes after all of them. Two runs that agree on the
\* accepted requests and on the worker therefore yield the same sequence.
DropsNotObservable ==
    /\ [](/\ Len(Results) <= Len(Accepted(sent))
          /\ \A j \in 1..Len(out) :
                IF j <= Len(Results)
                THEN LET a == Accepted(sent)[j]
                     IN out[j] = (CASE j \in ReadinessErrors -> ReadySomeErr("poll_ready", a)
                                    [] j \notin ReadinessErrors /\ futures[j] = "ok" -> ReadySomeOk(a)
                                    [] OTHER -> ReadySomeErr("call", a))
                ELSE out[j] = ReadyNone)
    /\ [][((\E e \in Events : on_event(e)) /\ sent'[Len(sent')].outcome # "accepted") =>
            UNCHANGED <<sinkKind, buffer, receiver, sinkAlive, streamAlive, inner, service,
                        futures, received, called, overlap, out, lastPoll, trace, woken>>]_vars

\* C15 witness: an offer dropped on a full channel lies between two accepted
\* ones, and the consumer got the two results and then None.
DropsNotObservableWitness ==
    /\ Len(sent) = 3
    /\ sent[1].outcome = "accepted"
    /\ sent[2].outcome = "full"
    /\ sent[3].outcome = "accepted"
    /\ Len(out) = 3
    /\ out[1].some /\ out[2].some
    /\ out[2].req = sent[3].req
    /\ out[3] = ReadyNone

\* C16: a pull made in WaitingService with the Service not ready, in Existing
\* with the future unresolved, or in WaitingStream with the channel empty and
\* the layer alive returns Pending and leaves inner, the channel, the Service
\* and the futures as they were; whatever state a Pending pull ends in, it holds
\* the last received request, pending or in flight and unresolved; the next pull
\* starts with the operation of the state inner was left in; and a step that is
\* not a pull changes neither inner nor the number of futures, and no resolved
\* future.
SuspendPreservesState ==
    /\ [][((\E in \in CallInputs : Pull(in))
            /\ \/ inner.tag = "WaitingService" /\ service = "NotReady"
               \/ inner.tag = "Existing" /\ futures[inner.future] = "running"
               \/ inner.tag = "WaitingStream" /\ receiver = <<>> /\ sinkAlive) =>
            /\ lastPoll' = PollPending
            /\ inner' = inner
            /\ UNCHANGED <<receiver, service, futures, received, called, out>>]_vars
    /\ [][((\E in \in CallInputs : Pull(in)) /\ lastPoll' = PollPending) =>
            /\ out' = out
            /\ \/ inner' = WaitingStream /\ inner = WaitingStream /\ received' = received
               \/ /\ inner' = WaitingService(received'[Len(received')])
                  /\ called' = called
               \/ /\ inner' = Existing(Len(futures'))
                  /\ futures'[Len(futures')] = "running"
                  /\ called'[Len(called')] = received'[Len(received')]]_vars
    /\ [][((\E in \in CallInputs : Pull(in)) /\ inner.tag # "Closed") =>
            trace'[1].at = inner.tag]_vars
    /\ [][~(\E in \in CallInputs : Pull(in)) =>
            /\ inner' = inner
            /\ Len(futures') = Len(futures)
            /\ \A i \in 1..Len(futures) : futures[i] # "running" => futures'[i] = futures[i]]_vars

\* C16 witness: two pulls in a row returned Pending in WaitingService with the
\* same pending request, the second after the Service had been found not ready.
SuspendPreservesStateWitness ==
    /\ inner.tag = "WaitingService"
    /\ inner.request = received[Len(received)]
    /\ trace = <<Step("poll_ready", "Pending", "WaitingService")>>
    /\ lastPoll = PollPending
    /\ service = "NotReady"

\* C17: a pull returns Pending only in a state whose own check is not ready at
\* that moment: WaitingStream with the channel empty and the layer alive,
\* WaitingService with the Service not ready, Existing with the future
\* unresolved; and one pull that starts in WaitingStream with a request queued,
\* the Service ready and a future that is complete when first polled performs
\* receive, readiness check, call and future poll and yields that request's
\* result.
EagerReevaluation ==
    /\ [][((\E in \in CallInputs : Pull(in)) /\ lastPoll' = PollPending) =>
            \/ inner'.tag = "WaitingStream" /\ receiver' = <<>> /\ sinkAlive
            \/ inner'.tag = "WaitingService" /\ service' = "NotReady"
            \/ inner'.tag = "Existing" /\ futures'[inner'.future] = "running"]_vars
    /\ [][\A in \in CallInputs :
            (/\ Pull(in)
             /\ inner = WaitingStream /\ receiver # <<>> /\ service = "Ready"
             /\ in.fut # "running") =>
                /\ lastPoll' = (IF in.fut = "ok" THEN ReadySomeOk(Head(receiver))
                                ELSE ReadySomeErr("call", Head(receiver)))
                /\ out' = Append(out, lastPoll')
                /\ [j \in 1..Len(trace') |-> trace'[j].op] =
                      <<"poll_recv", "poll_ready", "call", "future_poll">>
                /\ inner' = WaitingStream]_vars

\* C17 witness: the first pull ever made went through all four operations and
\* returned the response to the first request.
EagerReevaluationWitness ==
    /\ Len(trace) = 4
    /\ trace[1].op = "poll_recv"
    /\ out = <<ReadySomeOk(received[1])>>
    /\ lastPoll = out[1]

\* What the state inner is in waits for has happened since the latest pull.
Unblocked ==
    \/ inner.tag = "WaitingStream" /\ (receiver # <<>> \/ ~sinkAlive)
    \/ inner.tag = "WaitingService" /\ service # "NotReady"
    \/ inner.tag = "Existing" /\ futures[inner.future] # "running"

\* C18: after a pull that returned Pending, the Waker of that pull is
\* registered with the operation the state left behind waits on (poll_recv in
\* WaitingStream, poll_ready in WaitingService, the future in Existing), that
\* operation was the last one polled in the pull, and as soon as the state is
\* unblocked the Waker has been woken.
NoLostWakeup ==
    lastPoll = PollPending =>
        /\ Waker = (CASE inner.tag = "WaitingStream" -> "poll_recv"
                      [] inner.tag = "WaitingService" -> "poll_ready"
                      [] inner.tag = "Existing" -> "future_poll"
                      [] OTHER -> "-")
        /\ LastStep = Step(Waker, "Pending", inner.tag)
        /\ Unblocked => woken

\* C18 witness: a pull returned Pending on an empty channel, the layer then
\* sent a request, and the consumer's Waker was woken.
NoLostWakeupWitness ==
    /\ lastPoll = PollPending
    /\ inner = WaitingStream
    /\ receiver # <<>>
    /\ woken

\* The payload is opaque to the stream; one value is enough for progress.
LiveEvents == {"a"}

\* The driver loop of examples/basic.rs keeps polling a stream it never drops,
\* over a Service that never fails, becomes ready again and resolves its
\* futures.
LiveNext ==
    \/ \E e \in LiveEvents : on_event(e)
    \/ drop_layer
    \/ \E in \in CallInputs : Pull(in)
    \/ service_ready
    \/ \E f \in 1..MaxOffers, o \in {"ok", "err"} : future_complete(f, o)

LiveSpec ==
    /\ Init
    /\ [][LiveNext]_vars
    /\ WF_vars(\E in \in CallInputs : Pull(in))
    /\ WF_vars(service_ready)
    /\ WF_vars(\E f \in 1..MaxOffers, o \in {"ok", "err"} : future_complete(f, o))

\* Every request accepted so far has been yielded, in order, and if the layer
\* is gone the stream is Closed and its last pull returned None.
Settled ==
    /\ Len(Results) = Len(Accepted(sent))
    /\ \A i \in 1..Len(Results) : Results[i].req = Accepted(sent)[i]
    /\ ~sinkAlive => (inner = Closed /\ lastPoll = ReadyNone)

\* C19: under LiveSpec, again and again everything accepted so far has been
\* yielded and a dropped layer has led to Closed and None. As the accepted and
\* the yielded requests only grow and a dropped layer stays dropped, every
\* accepted request is eventually yielded as a result, and once the layer is
\* dropped the stream eventually closes and yields None.
EventuallyYieldedAndClosed == []<>Settled

\* C19 witness: every offer was accepted and yielded, the layer was dropped and
\* the stream closed.
EventuallyYieldedAndClosedWitness ==
    /\ ~sinkAlive
    /\ inner = Closed
    /\ Len(Accepted(sent)) = MaxOffers
    /\ Len(Results) = MaxOffers
    /\ lastPoll = ReadyNone

\* C20: while inner is Closed no step receives from the channel, calls the
\* Service or yields a result, and a pull performs no operation at all; the
\* channel keeps what it holds and still accepts offers while the stream is
\* alive. After a close on a readiness error the requests accepted but not
\* received all stay in the channel, none of them called or yielded.
ClosedTouchesNothing ==
    /\ [][inner.tag = "Closed" =>
            /\ UNCHANGED <<received, called, futures>>
            /\ Len(SelectSeq(out', LAMBDA x : x.some)) = Len(Results)
            /\ Len(receiver') >= Len(receiver)
            /\ SubSeq(receiver', 1, Len(receiver)) = receiver
            /\ (\E in \in CallInputs : Pull(in)) => trace' = <<>> /\ service' = service
            /\ ((\E e \in Events : on_event(e)) /\ streamAlive
                  /\ (sinkKind = "Sender" => Len(receiver) < buffer)) =>
                  Len(receiver') = Len(receiver) + 1]_vars
    /\ []((inner = Closed /\ ReadinessErrors # {}) =>
            /\ Accepted(sent) = received \o receiver
            /\ \A j \in 1..Len(receiver) :
                  /\ \A i \in 1..Len(called) : called[i] # receiver[j]
                  /\ \A i \in 1..Len(out) : out[i].req # receiver[j])

\* C20 witness: the stream closed on a readiness error for the first request,
\* two more requests sit in the channel, and two later pulls returned None.
ClosedTouchesNothingWitness ==
    /\ inner = Closed
    /\ ReadinessErrors = {1}
    /\ Len(out) = 3
    /\ Len(receiver) = 2
    /\ streamAlive
====
